---------------------------- MODULE Spec2Model ----------------------------
(***************************************************************************)
(* Model of the chat backend (backend/app.py, backend/data_store.py):      *)
(* intent classification, the lookups of the data store, and the /chat     *)
(* request handler with its calls to the generation client.                *)
(*                                                                         *)
(* Text.  A Python str is a sequence of tokens.  A token is one character  *)
(* wherever the code looks inside the string (queries, FAQ keys, product   *)
(* names and keywords, order ids, the keyword lists and the regular        *)
(* expressions of detect_intent), and one opaque chunk where the code only *)
(* copies or compares the whole string (FAQ answers, fixed messages,       *)
(* statuses, dates, descriptions, texts produced by the model).            *)
(* ASCII characters are written as themselves.  Japanese characters are    *)
(* written h_<romaji> (hiragana), k_<romaji> (katakana), j_<romaji>        *)
(* (kanji); fw_qmark is the full-width question mark U+FF1F.               *)
(*                                                                         *)
(* A Python value that may be None is a record: PyNone, or PyStr(text),    *)
(* or a record with the keys of the dict.                                  *)
(***************************************************************************)
EXTENDS Naturals, Integers, Sequences, FiniteSets, TLC

------------------------------------------------------------------------------
(* Characters                                                              *)

UpperLetters == <<"A","B","C","D","E","F","G","H","I","J","K","L","M",
                  "N","O","P","Q","R","S","T","U","V","W","X","Y","Z">>

LowerLetters == <<"a","b","c","d","e","f","g","h","i","j","k","l","m",
                  "n","o","p","q","r","s","t","u","v","w","x","y","z">>

Digits == {"0","1","2","3","4","5","6","7","8","9"}

Range(s) == {s[i] : i \in 1..Len(s)}

UpperSet == Range(UpperLetters)

LowerSet == Range(LowerLetters)

\* Characters that are not word characters for Python's re (\w is false):
\* ASCII space and punctuation, and the full-width question mark.
NonWordChars == {" ", ":", "-", "?", "'", ".", "fw_qmark"}

\* Characters matched by \s.
SpaceChars == {" "}

LowerMap == [c \in UpperSet |-> LowerLetters[CHOOSE i \in 1..26 : UpperLetters[i] = c]]

UpperMap == [c \in LowerSet |-> UpperLetters[CHOOSE i \in 1..26 : LowerLetters[i] = c]]

\* str.lower() on one character: only ASCII capitals change; kana and kanji
\* have no case.
LowerChar(c) == IF c \in UpperSet THEN LowerMap[c] ELSE c

UpperChar(c) == IF c \in LowerSet THEN UpperMap[c] ELSE c

\* \w of a Python 3 str pattern: letters of any script, digits, underscore.
IsWord(c) == c \notin NonWordChars

IsSpace(c) == c \in SpaceChars

IsDigit(c) == c \in Digits

\* [A-Z] under re.IGNORECASE.
IsLetterAZ(c) == c \in UpperSet \/ c \in LowerSet

\* [A-Z0-9-] under re.IGNORECASE.
IsCodeChar(c) == IsLetterAZ(c) \/ IsDigit(c) \/ c = "-"

------------------------------------------------------------------------------
(* Strings                                                                 *)

Lower(s) == [i \in 1..Len(s) |-> LowerChar(s[i])]

Upper(s) == [i \in 1..Len(s) |-> UpperChar(s[i])]

\* sub in s
Contains(sub, s) ==
    \E i \in 0..(Len(s) - Len(sub)) : SubSeq(s, i + 1, i + Len(sub)) = sub

\* s[i+1 .. i+Len(lit)] equals lit, ignoring case (lit is given in lower case).
LitAt(lit, s, i) ==
    /\ i + Len(lit) <= Len(s)
    /\ \A k \in 1..Len(lit) : LowerChar(s[i + k]) = lit[k]

\* str.strip(): leading and trailing whitespace removed.
Strip(s) ==
    LET nonSpace == {i \in 1..Len(s) : ~IsSpace(s[i])}
    IN  IF nonSpace = {} THEN << >>
        ELSE LET first == CHOOSE i \in nonSpace : \A j \in nonSpace : i <= j
                 last == CHOOSE i \in nonSpace : \A j \in nonSpace : j <= i
             IN  SubSeq(s, first, last)

\* "".join(parts)
RECURSIVE Join(_)
Join(ss) == IF ss = << >> THEN << >> ELSE Head(ss) \o Join(Tail(ss))

\* sep.join(parts)
RECURSIVE JoinWith(_, _)
JoinWith(sep, ss) ==
    IF ss = << >> THEN << >>
    ELSE IF Len(ss) = 1 THEN Head(ss)
    ELSE Head(ss) \o sep \o JoinWith(sep, Tail(ss))

\* \b at position p of s (between s[p] and s[p+1]); the ends of the string
\* count as non-word characters.
WordAt(s, p) == p >= 1 /\ p <= Len(s) /\ IsWord(s[p])

Boundary(s, p) == WordAt(s, p) # WordAt(s, p + 1)

\* Every character of s[a+1 .. b] satisfies the class; the run is b - a long.
AllDigits(s, a, b) == \A k \in (a + 1)..b : IsDigit(s[k])

AllLetters(s, a, b) == \A k \in (a + 1)..b : IsLetterAZ(s[k])

AllCode(s, a, b) == \A k \in (a + 1)..b : IsCodeChar(s[k])

AllDigitOrHyphen(s, a, b) == \A k \in (a + 1)..b : IsDigit(s[k]) \/ s[k] = "-"

AllSep(s, a, b) == \A k \in (a + 1)..b : IsSpace(s[k]) \/ s[k] = ":"

------------------------------------------------------------------------------
(* Python values                                                           *)

PyNone == [t |-> "None"]

PyStr(s) == [t |-> "str", v |-> s]

PyInt(n) == [t |-> "int", v |-> n]

\* bool(v): None, "", 0 and {} are false.  A record without the tag t is a
\* product or an order, a dict with keys.
Truthy(v) ==
    IF "t" \notin DOMAIN v THEN TRUE
    ELSE CASE v.t = "None" -> FALSE
           [] v.t = "str" -> v.v # << >>
           [] v.t = "int" -> v.v # 0
           [] v.t \in {"dict", "map"} -> DOMAIN v # {"t"}
           [] OTHER -> TRUE

\* dict.get(key): the value, or None.
Get(d, key) == IF key \in DOMAIN d THEN d[key] ELSE PyNone

\* The outcome of a call: a returned value, or an exception.
Return(v) == [raised |-> FALSE, value |-> v]

Raise(what) == [raised |-> TRUE, value |-> what]

------------------------------------------------------------------------------
(* Data: backend/data_store.py                                             *)

\* 送料はいくらですか？
FaqKeyShipping ==
    <<"j_sou","j_ryou","h_ha","h_i","h_ku","h_ra","h_de","h_su","h_ka","fw_qmark">>

\* 営業時間は？
FaqKeyHours == <<"j_ei","j_gyou","j_ji","j_kan","h_ha","fw_qmark">>

\* 支払い方法は何がありますか？
FaqKeyPayment ==
    <<"j_shi","j_hara","h_i","j_hou","j_pou","h_ha","j_nani","h_ga","h_a","h_ri",
      "h_ma","h_su","h_ka","fw_qmark">>

\* 全国一律500円（税込）となっております。
FaqAnswerShipping == <<"Zenkoku ichiritsu 500 yen (zeikomi) to natte orimasu.">>

\* 当店の営業時間は、平日午前9時から午後6時までです。
FaqAnswerHours == <<"Touten no eigyou jikan wa, heijitsu gozen 9 ji kara gogo 6 ji made desu.">>

\* クレジットカード、銀行振込、代金引換がご利用いただけます。
FaqAnswerPayment == <<"Credit card, ginkou furikomi, daikin hikikae ga go-riyou itadakemasu.">>

\* faq_database as data_store.py defines it (the second, final assignment).
FaqReal ==
    (FaqKeyShipping :> FaqAnswerShipping) @@ (FaqKeyHours :> FaqAnswerHours)
        @@ (FaqKeyPayment :> FaqAnswerPayment)

\* ペンの注文 ("ordering a pen"): a key that holds a product keyword (ペン) and
\* an order keyword (注文).
FaqKeyPenOrder == <<"k_pe","k_n","h_no","j_chuu","j_mon">>

FaqAnswerPenOrder == <<"Pen no chuumon wa online shop kara douzo.">>

\* The table with one more entry, as the source invites ("add FAQs as
\* needed"): the only way a query can match the FAQ rule and a later rule.
FaqExtended == FaqReal @@ (FaqKeyPenOrder :> FaqAnswerPenOrder)

FaqTables == {FaqReal, FaqExtended}

\* すごいTシャツ
NameTShirt == <<"h_su","h_go","h_i","T","k_shi","k_ya","k_tsu">>

\* 便利なマグカップ
NameMug == <<"j_ben","j_ri","h_na","k_ma","k_gu","k_ka","k_tsu_s","k_pu">>

\* 多機能ボールペン
NamePen == <<"j_ta","j_ki","j_nou","k_bo","k_long","k_ru","k_pe","k_n">>

\* product_database as data_store.py leaves it: the literal list, which
\* replaces whatever products.json held.
ProductsReal ==
    << [id |-> <<"prod001">>,
        name |-> NameTShirt,
        keywords |-> << <<"t","k_shi","k_ya","k_tsu">>,
                        <<"t","-","s","h","i","r","t">>,
                        <<"h_su","h_go","h_i","t","k_shi","k_ya","k_tsu">> >>,
        price |-> 3000,
        description |-> <<"Kigokochi batsugun! ... sugoi T-shirt desu.">>],
       [id |-> <<"prod002">>,
        name |-> NameMug,
        keywords |-> << <<"k_ma","k_gu","k_ka","k_tsu_s","k_pu">>,
                        <<"k_ka","k_tsu_s","k_pu">>,
                        <<"j_ben","j_ri","h_na","k_ma","k_gu","k_ka","k_tsu_s","k_pu">> >>,
        price |-> 1500,
        description |-> <<"Totte ga mochiyasuku ... benri na mug cup.">>],
       [id |-> <<"prod003">>,
        name |-> NamePen,
        keywords |-> << <<"k_bo","k_long","k_ru","k_pe","k_n">>,
                        <<"k_pe","k_n">>,
                        <<"j_ta","j_ki","j_nou","k_bo","k_long","k_ru","k_pe","k_n">>,
                        <<"j_ta","j_ki","j_nou","k_pe","k_n">> >>,
        price |-> 800,
        description |-> <<"Kuro, aka ball pen to sharp pencil ga ippon ni natta takinou pen.">>] >>

\* 発送済み (shipped), 処理中 (processing), 配達完了 (delivered)
StatusShipped == <<"hassou-zumi">>

StatusProcessing == <<"shori-chuu">>

StatusDelivered == <<"haitatsu-kanryou">>

\* order_database as data_store.py leaves it.
OrdersReal ==
    << [order_id |-> PyStr(<<"O","R","D","1","2","3">>),
        customer_name |-> PyStr(<<"Test User A">>),
        status |-> PyStr(StatusShipped),
        shipped_date |-> PyStr(<<"2025-04-10">>)],
       [order_id |-> PyStr(<<"O","R","D","4","5","6">>),
        customer_name |-> PyStr(<<"Test User B">>),
        status |-> PyStr(StatusProcessing),
        estimated_delivery |-> PyStr(<<"2025-04-16">>)],
       [order_id |-> PyStr(<<"X","Y","Z","7","8","9">>),
        customer_name |-> PyStr(<<"Test User C">>),
        status |-> PyStr(StatusDelivered),
        delivered_date |-> PyStr(<<"2025-04-12">>)] >>

------------------------------------------------------------------------------
(* State                                                                   *)

VARIABLES
    faq_database,       \* data_store.faq_database: key -> answer
    product_database,   \* data_store.product_database: list of product dicts
    order_database,     \* data_store.order_database: list of order dicts
    gemini_api_key,     \* app.gemini_api_key is set (not None)
    gemini_model,       \* app.gemini_model is set (not None)
    protos,             \* app.protos is a module (not None)
    req                 \* per request: the locals of chat() and what it did

vars ==
    <<faq_database, product_database, order_database, gemini_api_key,
      gemini_model, protos, req>>

store == <<faq_database, product_database, order_database>>

config == <<gemini_api_key, gemini_model, protos>>

------------------------------------------------------------------------------
(* Data access functions: backend/data_store.py                            *)

\* faq_database.get(query)
get_faq_answer(query) ==
    IF query \in DOMAIN faq_database THEN PyStr(faq_database[query]) ELSE PyNone

\* The name of the product (lower-cased) or one of its keywords occurs in
\* the lower-cased query.
NameMatches(product, query_lower) == Contains(Lower(product.name), query_lower)

KeywordMatches(product, query_lower) ==
    \E k \in 1..Len(product.keywords) : Contains(product.keywords[k], query_lower)

\* The first product of the list that matches, or None.
find_product(query) ==
    LET query_lower == Lower(query)
        hits == {i \in 1..Len(product_database) :
                    \/ NameMatches(product_database[i], query_lower)
                    \/ KeywordMatches(product_database[i], query_lower)}
    IN  IF hits = {} THEN PyNone
        ELSE product_database[CHOOSE i \in hits : \A j \in hits : i <= j]

\* The first order whose id equals order_id, ignoring case, or None;
\* order_id.upper() raises when order_id is not a str.
get_order_info(order_id) ==
    IF ~Truthy(order_id) THEN Return(PyNone)
    ELSE IF order_id.t # "str" THEN Raise("AttributeError")
    ELSE LET order_id_upper == Upper(order_id.v)
             hits == {i \in 1..Len(order_database) :
                        /\ Truthy(Get(order_database[i], "order_id"))
                        /\ Upper(order_database[i].order_id.v) = order_id_upper}
         IN  IF hits = {} THEN Return(PyNone)
             ELSE Return(order_database[CHOOSE i \in hits : \A j \in hits : i <= j])

\* Relevance weights and the number of entries kept by retrieve_product_info.
NameScore == 2

KeywordScore == 1

TopK == 2

\* match_score from the name alone: the keywords are not looked at.
MatchScore_name_only(product, query_lower) ==
    IF NameMatches(product, query_lower) THEN NameScore ELSE 0

\* match_score of one product: the name counts once, and the keywords count
\* once however many of them occur (the loop breaks at the first).
MatchScore(product, query_lower) ==
    (IF NameMatches(product, query_lower) THEN NameScore ELSE 0)
        + (IF KeywordMatches(product, query_lower) THEN KeywordScore ELSE 0)

\* 商品名: {name}\n価格: {price}円\n説明: {description}
InfoStr(product) ==
    <<"Shouhinmei: ">> \o product.name \o <<"\nKakaku: ", ToString(product.price), "yen">>
        \o <<"\nSetsumei: ">> \o product.description

\* The element of a singleton.  The({F(x) : x \in {e}}) is F(e) with e
\* evaluated once, as an assignment x = e followed by F(x) is in the code.
The(S) == CHOOSE x \in S : TRUE

\* relevant_info before sorting: the products with a positive score, in the
\* order of the list.
RECURSIVE RelevantFrom(_, _)
RelevantFrom(products, query_lower) ==
    IF products = << >> THEN << >>
    ELSE LET product == Head(products)
             match_score == MatchScore(product, query_lower)
             rest == RelevantFrom(Tail(products), query_lower)
         IN  IF match_score > 0
             THEN <<[score |-> match_score, info |-> InfoStr(product)]>> \o rest
             ELSE rest

\* relevant_info left in the order of the list, without the sort.
SortByScoreDesc_unsorted(items, top) == items

\* list.sort(key=score, reverse=True): descending, and stable (entries of
\* equal score keep their order).
RECURSIVE SortByScoreDesc(_, _)
SortByScoreDesc(items, top) ==
    IF top = 0 THEN << >>
    ELSE SelectSeq(items, LAMBDA x : x.score = top) \o SortByScoreDesc(items, top - 1)

\* relevant_info kept in a module-level list that is never emptied: a call
\* finds in it what the calls before it have appended.
SortedRelevant_remembering(query) ==
    LET earlier == {r \in DOMAIN req :
                        \E i \in 1..Len(req[r].log) : req[r].log[i].e = "retrieve"}
        kept == IF earlier = {} THEN << >>
                ELSE RelevantFrom(product_database,
                                  Lower(req[CHOOSE r \in earlier : TRUE].user_query))
    IN  SortByScoreDesc(kept \o RelevantFrom(product_database, Lower(query)),
                        NameScore + KeywordScore)

SortedRelevant(query) ==
    The({SortByScoreDesc(relevant_info, NameScore + KeywordScore) :
            relevant_info \in {RelevantFrom(product_database, query_lower) :
                                query_lower \in {Lower(query)}}})

\* relevant_info[:2]
Take(items, n) == SubSeq(items, 1, IF Len(items) < n THEN Len(items) ELSE n)

\* 関連する可能性のある商品情報:\n\n
ContextHeader == <<"Kanren suru kanousei no aru shouhin jouhou:\n\n">>

ContextSeparator == <<"\n\n---\n\n">>

\* The context string of the best TopK matches, or None when nothing matches.
retrieve_product_info(query) ==
    The({IF relevant_info = << >> THEN PyNone
         ELSE PyStr(ContextHeader
                     \o JoinWith(ContextSeparator,
                                 [i \in 1..Len(Take(relevant_info, TopK)) |->
                                     relevant_info[i].info])) :
            relevant_info \in {SortedRelevant(query)}})

------------------------------------------------------------------------------
(* Intent detection: backend/app.py                                        *)

Intents == {"faq", "product_info", "order_status", "general_chat"}

\* 注文, オーダー, 発送, いつ届きますか, 届かない, 配送, order, shipment, delivery,
\* status, track
order_keywords ==
    << <<"j_chuu","j_mon">>,
       <<"k_o","k_long","k_da","k_long">>,
       <<"j_hatsu","j_sou">>,
       <<"h_i","h_tsu","j_todo","h_ki","h_ma","h_su","h_ka">>,
       <<"j_todo","h_ka","h_na","h_i">>,
       <<"j_hai","j_sou">>,
       <<"o","r","d","e","r">>,
       <<"s","h","i","p","m","e","n","t">>,
       <<"d","e","l","i","v","e","r","y">>,
       <<"s","t","a","t","u","s">>,
       <<"t","r","a","c","k">> >>

\* any(keyword in query_lower for keyword in order_keywords)
HasOrderKeyword(query_lower) ==
    \E k \in 1..Len(order_keywords) : Contains(order_keywords[k], query_lower)

\* The ends j of the matches, starting after position i, of
\*   (?:注文(?:番号)?|オーダー|ID|order\s?(?:number|no|id)?)
\* under re.IGNORECASE.
LabelEnds(s, i) ==
    LET plain == { <<"j_chuu","j_mon">>,
                   <<"j_chuu","j_mon","j_ban","j_gou">>,
                   <<"k_o","k_long","k_da","k_long">>,
                   <<"i","d">> }
        suffix == { <<"n","u","m","b","e","r">>, <<"n","o">>, <<"i","d">> }
        afterOrder == i + 5
        afterSpace ==
            {afterOrder} \cup
                (IF afterOrder + 1 <= Len(s) /\ IsSpace(s[afterOrder + 1])
                 THEN {afterOrder + 1} ELSE {})
    IN  {i + Len(l) : l \in {x \in plain : LitAt(x, s, i)}}
        \cup (IF LitAt(<<"o","r","d","e","r">>, s, i)
              THEN afterSpace
                   \cup UNION {{b + Len(x) : x \in {y \in suffix : LitAt(y, s, b)}} :
                               b \in afterSpace}
              ELSE {})

\* re.search(r"\b(?:label)[\s:]+([A-Z0-9-]{3,})\b", query, re.IGNORECASE)
LabelledIdPattern(s) ==
    \E i \in 0..Len(s) :
        /\ Boundary(s, i)
        /\ \E j \in LabelEnds(s, i) :
            \E k \in (j + 1)..Len(s) :
                /\ AllSep(s, j, k)
                /\ \E m \in (k + 3)..Len(s) : AllCode(s, k, m) /\ Boundary(s, m)

\* re.search(r"\b(ORD[0-9-]+|[A-Z]{3}[0-9]{3,}|[0-9]{5,})\b", query, re.IGNORECASE)
StandaloneIdPattern(s) ==
    \E i \in 0..Len(s) :
        /\ Boundary(s, i)
        /\ \E m \in (i + 1)..Len(s) :
            /\ Boundary(s, m)
            /\ \/ LitAt(<<"o","r","d">>, s, i) /\ m >= i + 4 /\ AllDigitOrHyphen(s, i + 3, m)
               \/ m >= i + 6 /\ AllLetters(s, i, i + 3) /\ AllDigits(s, i + 3, m)
               \/ m >= i + 5 /\ AllDigits(s, i, m)

\* The body of the try block.  fault names the lookup that raises while the
\* query is classified ("none": the lookups of data_store.py, which do not
\* raise on a str).
DetectIntentBody(query, fault) ==
    IF fault = "faq" THEN Raise("get_faq_answer")
    ELSE IF Truthy(get_faq_answer(query)) THEN Return("faq")
    ELSE IF fault = "product" THEN Raise("find_product")
    ELSE IF Truthy(find_product(query)) THEN Return("product_info")
    ELSE IF HasOrderKeyword(Lower(query)) THEN Return("order_status")
    ELSE IF LabelledIdPattern(query) THEN Return("order_status")
    ELSE IF StandaloneIdPattern(query) THEN Return("order_status")
    ELSE Return("general_chat")

\* detect_intent with the product rule tried before the FAQ rule.
detect_intent_product_first(query, fault) ==
    IF fault = "none" /\ Truthy(find_product(query)) THEN Return("product_info")
    ELSE IF DetectIntentBody(query, fault).raised THEN Return("general_chat")
    ELSE DetectIntentBody(query, fault)

\* detect_intent without its try/except: what a lookup raises reaches chat().
detect_intent_uncaught(query, fault) == DetectIntentBody(query, fault)

\* try: ... except Exception: return "general_chat"
detect_intent(query, fault) ==
    LET outcome == DetectIntentBody(query, fault)
    IN  IF outcome.raised THEN Return("general_chat") ELSE outcome

------------------------------------------------------------------------------
(* Requests                                                                *)

\* The pieces a query is made of:
\*   送料はいくらですか？   (an FAQ key)
\*   ペンの注文            (a product keyword and an order keyword)
\*   すごいTシャツ          (a product name)
\*   ORD123, abc, "ID:", " "
\*   の状況を教えて        ("tell me the state of")
Fragments ==
    { FaqKeyShipping,
      FaqKeyPenOrder,
      NameTShirt,
      <<"O","R","D","1","2","3">>,
      <<"a","b","c">>,
      <<"I","D",":">>,
      <<" ">>,
      <<"h_no","j_jou","j_kyou","h_wo","j_oshi","h_e","h_te">> }

\* The largest number of pieces in one query.
MaxFragments == 2

RECURSIVE QueriesOf(_)
QueriesOf(n) ==
    IF n = 0 THEN { << >> }
    ELSE LET shorter == QueriesOf(n - 1)
         IN  shorter \cup {q \o f : q \in shorter, f \in Fragments}

\* The strings a client sends as "query".
Queries == QueriesOf(MaxFragments)

\* A value of "query" that is not a string.
NonStringQuery == PyInt(42)

\* What request.get_json() yields: null, {}, a dict without "query", a dict
\* with "query" (a string, or something else); or a body that is not JSON,
\* on which get_json() raises.
Bodies ==
    { PyNone,
      [t |-> "dict"],
      [t |-> "dict", message |-> PyStr(FaqKeyShipping)],
      [t |-> "dict", query |-> NonStringQuery],
      [t |-> "malformed"] }
        \cup {[t |-> "dict", query |-> PyStr(q)] : q \in Queries}

------------------------------------------------------------------------------
(* The generation client: what gemini_model.generate_content() yields      *)

\* The i-th segment of a reply that carries text.
TextPart(i) == [text |-> PyStr(<<"model text " \o ToString(i)>>), function_call |-> PyNone]

\* A segment that asks for a function; on such a segment text is "".
CallPart(name, args) ==
    [text |-> PyStr(<< >>), function_call |-> [name |-> name, args |-> args]]

\* function_call.args: a map with order_id (a known id, a known id in lower
\* case, an unknown id, a number), a map without order_id, or no map at all.
ArgChoices ==
    { [t |-> "map", order_id |-> PyStr(<<"O","R","D","1","2","3">>)],
      [t |-> "map", order_id |-> PyStr(<<"x","y","z","7","8","9">>)],
      [t |-> "map", order_id |-> PyStr(<<"a","b","c">>)],
      [t |-> "map", order_id |-> PyInt(123)],
      [t |-> "map"],
      PyNone }

SomeArgs == [t |-> "map", order_id |-> PyStr(<<"O","R","D","4","5","6">>)]

\* content.parts of the first candidate.
PartLists ==
    { << >>,
      <<TextPart(1)>>,
      <<TextPart(1), TextPart(2)>>,
      <<CallPart("some_other_function", SomeArgs)>>,
      <<TextPart(1), CallPart("get_order_info", SomeArgs)>>,
      <<CallPart("get_order_info", SomeArgs), TextPart(2)>> }
        \cup {<<CallPart("get_order_info", a)>> : a \in ArgChoices}

TextOnlyPartLists == {<< >>, <<TextPart(1)>>, <<TextPart(1), TextPart(2)>>}

DirectText == <<"model direct text">>

Response(candidates, text, block_reason) ==
    [t |-> "response", candidates |-> candidates, text |-> text, block_reason |-> block_reason]

Content(role, parts) == [role |-> role, parts |-> parts]

\* The exceptions generate_content() raises (str(e)).
GenErrors == {"503 service unavailable", "deadline exceeded"}

\* The outcomes of one call: a response without candidates, a response with
\* one candidate, an object without the attributes the handler reads, or an
\* exception.
Replies ==
    {Response(<< >>, text, blocked) : text \in {PyNone, PyStr(DirectText)}, blocked \in BOOLEAN}
        \cup {Response(<<Content("model", parts)>>, PyNone, FALSE) : parts \in PartLists}
        \cup {Response(<<Content("model", parts)>>, PyStr(DirectText), FALSE) :
                parts \in TextOnlyPartLists}
        \cup {[t |-> "broken"]}
        \cup {[t |-> "raises", error |-> e] : e \in GenErrors}

\* "".join(part.text for part in parts if hasattr(part, 'text'))
JoinPartTexts(parts) ==
    LET withText == SelectSeq(parts, LAMBDA part : part.text # PyNone)
    IN  Join([i \in 1..Len(withText) |-> withText[i].text.v])

\* response.candidates and response.candidates[0].content.parts
HasParts(reply) == reply.candidates # << >> /\ reply.candidates[1].parts # << >>

\* The extraction of the RAG handler and of both rounds of the order-status
\* handler: segments of the first candidate, then the text field, then the
\* block reason.  Reading a broken object raises inside the try block.
ExtractPartsFirst(reply, blockedText, unexpectedText, exceptText) ==
    IF reply.t = "broken" THEN exceptText
    ELSE IF HasParts(reply) THEN JoinPartTexts(reply.candidates[1].parts)
    ELSE IF reply.text # PyNone THEN reply.text.v
    ELSE IF reply.block_reason THEN blockedText
    ELSE unexpectedText

\* The extraction of the general-chat handler: the text field first, then the
\* segments of the first candidate, then the block reason.
ExtractTextFirst(reply, blockedText, unexpectedText, exceptText) ==
    IF reply.t = "broken" THEN exceptText
    ELSE IF reply.text # PyNone THEN reply.text.v
    ELSE IF HasParts(reply) THEN JoinPartTexts(reply.candidates[1].parts)
    ELSE IF reply.block_reason THEN blockedText
    ELSE unexpectedText

------------------------------------------------------------------------------
(* Fixed texts of backend/app.py                                           *)

MsgNoQuery == <<"Request body must contain 'query'.">>

MsgDefault == <<"Sorry, I could not respond properly due to an internal error.">>

MsgModelNotReady ==
    <<"The AI model is not ready, so product descriptions cannot be generated. Please contact the administrator.">>

MsgRagParseDefault == <<"(Error parsing AI response)">>

MsgRagBlocked == <<"(The response was blocked due to safety settings.)">>

MsgRagUnexpected == <<"(Unexpected AI response format.)">>

MsgRagExtractFailed == <<"Failed to get/parse AI product description.">>

MsgRagFailed ==
    <<"Relevant information was found, but an error occurred during AI response generation. Please try again later.">>

MsgNoProduct ==
    <<"Sorry, no relevant product information was found. Could you please ask more specifically?">>

MsgModelUnavailable == <<"AI model is not available.">>

MsgNoTools == <<"Function calling configuration is not available.">>

MsgFinalParseDefault == <<"(Error parsing final AI response)">>

MsgFinalBlocked == <<"(The final response was blocked.)">>

MsgInitialParseDefault == <<"(Error parsing initial AI response)">>

MsgInitialBlocked == <<"(The initial response was blocked.)">>

MsgOrderFailed(e) == <<"An error occurred while checking order status: ", e>>

MsgGeneralParseDefault == <<"(Error parsing general AI response)">>

MsgGeneralBlocked == <<"(General response was blocked)">>

MsgGeneralFailed(e) == <<"An internal error occurred during AI response generation: ", e>>

MsgNoResponse == <<"Internal server error: Could not generate response.">>

MsgUnexpected == <<"An unexpected internal error occurred.">>

MsgAnswerInEnglish ==
    <<"Now, using the function result provided, please answer the original user query in English.">>

\* jsonify({"response": text}), and (jsonify({"error": text}), status)
OkResponse(text) == [t |-> "result", key |-> "response", text |-> text, status |-> 200]

ErrorResponse(text, status) == [t |-> "result", key |-> "error", text |-> text, status |-> status]

\* The dictionary schema handed to round 1.
available_tools ==
    << [name |-> "get_order_info",
        parameters |-> [type |-> "OBJECT",
                        properties |-> [order_id |-> [type |-> "STRING"]],
                        required |-> <<"order_id">>]] >>

------------------------------------------------------------------------------
(* The /chat handler: backend/app.py, chat()                               *)

\* The requests the server handles (each in its own thread).
Requests == {1, 2}

\* The locals of one call of chat(), its position, what it returned, and
\* the calls it made, in order.
InitReq ==
    [pc |-> "idle", body |-> PyNone, user_query |-> << >>, intent |-> "unset",
     response |-> PyNone, outgoing |-> << >>, result |-> PyNone, log |-> << >>]

Logged(s, event) == [s EXCEPT !.log = Append(@, event)]

\* chat() without its catch-all: the exception leaves the handler.
OuterExcept_reraise(s) ==
    [s EXCEPT !.result = [t |-> "exception"], !.pc = "done"]

\* except Exception as e_outer: the catch-all of chat().
OuterExcept(s) ==
    [s EXCEPT !.result = ErrorResponse(MsgUnexpected, 500), !.pc = "done"]

\* data = request.get_json(); the check of 'query'; user_query = query.strip()
ParseStep(s) ==
    IF s.body.t = "malformed" THEN OuterExcept(s)
    ELSE IF ~Truthy(s.body) \/ "query" \notin DOMAIN s.body
    THEN [s EXCEPT !.result = ErrorResponse(MsgNoQuery, 400), !.pc = "done"]
    ELSE IF s.body.query.t # "str" THEN OuterExcept(s)
    ELSE [s EXCEPT !.user_query = Strip(s.body.query.v), !.pc = "classify"]

\* intent = detect_intent(user_query)
ClassifyStep(s, fault) ==
    LET outcome == detect_intent(s.user_query, fault)
    IN  IF outcome.raised THEN OuterExcept(s)
        ELSE Logged([s EXCEPT !.intent = outcome.value, !.pc = "route_faq"],
                    [e |-> "classify", intent |-> outcome.value, fault |-> fault])

\* The FAQ block answering with the default response_text instead of the
\* answer it looked up.
FaqStep_default_text(s, fault) ==
    IF s.intent # "faq" THEN [s EXCEPT !.pc = "route_main"]
    ELSE [s EXCEPT !.response = OkResponse(MsgDefault), !.pc = "route_main"]

\* The FAQ block with the fallback assignment outside its else: intent
\* becomes general_chat whether or not an answer was found.
FaqStep_always_general(s, fault) ==
    IF s.intent # "faq" THEN [s EXCEPT !.pc = "route_main"]
    ELSE LET entered == Logged(s, [e |-> "handler", name |-> "faq"])
             answer == IF fault = "miss" THEN PyNone ELSE get_faq_answer(s.user_query)
             looked == Logged(entered, [e |-> "faq_lookup", answer |-> answer])
         IN  IF fault = "raise" THEN OuterExcept(entered)
             ELSE IF answer # PyNone
             THEN [looked EXCEPT !.response = OkResponse(answer.v),
                                 !.intent = "general_chat", !.pc = "route_main"]
             ELSE [looked EXCEPT !.intent = "general_chat", !.pc = "route_main"]

\* The FAQ block without the fallback assignment: a miss leaves intent faq.
FaqStep_no_fallback(s, fault) ==
    IF s.intent # "faq" THEN [s EXCEPT !.pc = "route_main"]
    ELSE LET entered == Logged(s, [e |-> "handler", name |-> "faq"])
             answer == IF fault = "miss" THEN PyNone ELSE get_faq_answer(s.user_query)
             looked == Logged(entered, [e |-> "faq_lookup", answer |-> answer])
         IN  IF fault = "raise" THEN OuterExcept(entered)
             ELSE IF answer # PyNone
             THEN [looked EXCEPT !.response = OkResponse(answer.v), !.pc = "route_main"]
             ELSE [looked EXCEPT !.pc = "route_main"]

\* if intent == "faq": the answer of the store, or the fallback to
\* general_chat.  fault: the lookup raises ("raise") or finds nothing
\* ("miss"), where the store of data_store.py would answer ("none").
FaqStep(s, fault) ==
    IF s.intent # "faq" THEN [s EXCEPT !.pc = "route_main"]
    ELSE LET entered == Logged(s, [e |-> "handler", name |-> "faq"])
             answer == IF fault = "miss" THEN PyNone ELSE get_faq_answer(s.user_query)
             looked == Logged(entered, [e |-> "faq_lookup", answer |-> answer])
         IN  IF fault = "raise" THEN OuterExcept(entered)
             ELSE IF answer # PyNone
             THEN [looked EXCEPT !.response = OkResponse(answer.v), !.pc = "route_main"]
             ELSE [looked EXCEPT !.intent = "general_chat", !.pc = "route_main"]

\* The RAG prompt: instructions, the retrieved context, the question.
RagPrompt(context, query) ==
    <<"Based *only* on the relevant information below, ... # Relevant Information\n">>
        \o context \o <<"\n\n# Customer Question\n">> \o query
        \o <<"\n\n# Assistant Response (in English):">>

\* str(v) inside an f-string.
Fmt(v) ==
    CASE v.t = "None" -> <<"None">>
      [] v.t = "str" -> v.v
      [] v.t = "int" -> <<ToString(v.v)>>

\* function_response_content without the field that goes with the status.
FunctionResponseContent_no_field(order_id_from_ai, function_result_data) ==
    IF Truthy(function_result_data)
    THEN <<"The status for Order ID '">> \o Fmt(order_id_from_ai) \o <<"' is '">>
            \o Fmt(Get(function_result_data, "status")) \o <<"'.">>
    ELSE <<"Order ID '">> \o Fmt(order_id_from_ai) \o <<"' was not found.">>

\* function_response_content: the status of the order with the field that
\* goes with the status, or "not found".
FunctionResponseContent(order_id_from_ai, function_result_data) ==
    IF Truthy(function_result_data)
    THEN LET status == IF "status" \in DOMAIN function_result_data
                       THEN function_result_data.status ELSE PyStr(<<"Unknown">>)
             field(name) == Get(function_result_data, name)
         IN  <<"The status for Order ID '">> \o Fmt(order_id_from_ai) \o <<"' is '">>
                \o Fmt(status) \o <<"'.">>
                \o (IF status = PyStr(StatusShipped) /\ Truthy(field("shipped_date"))
                    THEN <<" (Shipped on ">> \o Fmt(field("shipped_date")) \o <<")">>
                    ELSE IF status = PyStr(StatusProcessing) /\ Truthy(field("estimated_delivery"))
                    THEN <<" (Estimated delivery: ">> \o Fmt(field("estimated_delivery")) \o <<")">>
                    ELSE IF status = PyStr(StatusDelivered) /\ Truthy(field("delivered_date"))
                    THEN <<" (Delivered on ">> \o Fmt(field("delivered_date")) \o <<")">>
                    ELSE << >>)
    ELSE <<"Order ID '">> \o Fmt(order_id_from_ai) \o <<"' was not found.">>

\* The history sent in round 2.
History(user_query, model_turn, function_response_content) ==
    << Content("user", <<[text |-> PyStr(user_query)]>>),
       model_turn,
       Content("tool", <<[function_response |->
                            [name |-> "get_order_info",
                             response |-> [result |-> function_response_content]]]>>),
       Content("user", <<[text |-> PyStr(MsgAnswerInEnglish)]>>) >>

\* except Exception as e: of the order-status block.
OrderFailed(s, e) ==
    [s EXCEPT !.response = ErrorResponse(MsgOrderFailed(e), 500), !.pc = "route_general"]

\* The product-info handler without its test of the context: with no
\* context it still sends a prompt to the generation client.
MainStep_prompt_without_context(s, fault) ==
    IF s.intent = "product_info"
    THEN LET entered == Logged(s, [e |-> "handler", name |-> "product_info"])
             retrieved_context == IF fault = "miss" THEN PyNone
                                  ELSE retrieve_product_info(s.user_query)
             looked == Logged(entered, [e |-> "retrieve", context |-> retrieved_context])
         IN  IF fault = "raise" THEN OuterExcept(entered)
             ELSE IF ~Truthy(retrieved_context)
             THEN [looked EXCEPT !.outgoing = RagPrompt(<< >>, s.user_query),
                                 !.pc = "rag_call"]
             ELSE IF ~gemini_model
             THEN [looked EXCEPT !.response = OkResponse(MsgModelNotReady),
                                 !.pc = "route_general"]
             ELSE [looked EXCEPT !.outgoing = RagPrompt(retrieved_context.v, s.user_query),
                                 !.pc = "rag_call"]
    ELSE IF s.intent = "order_status"
    THEN LET entered == Logged(s, [e |-> "handler", name |-> "order_status"])
         IN  IF ~gemini_model
             THEN [entered EXCEPT !.response = ErrorResponse(MsgModelUnavailable, 500),
                                  !.pc = "route_general"]
             ELSE IF available_tools = << >>
             THEN [entered EXCEPT !.response = ErrorResponse(MsgNoTools, 500),
                                  !.pc = "route_general"]
             ELSE [entered EXCEPT !.outgoing = s.user_query, !.pc = "round1"]
    ELSE [s EXCEPT !.pc = "route_general"]

\* The order-status block without its test of the model handle: with the
\* handle missing it still goes on to round 1.
MainStep_no_model_check(s, fault) ==
    IF s.intent = "product_info"
    THEN LET entered == Logged(s, [e |-> "handler", name |-> "product_info"])
             retrieved_context == IF fault = "miss" THEN PyNone
                                  ELSE retrieve_product_info(s.user_query)
             looked == Logged(entered, [e |-> "retrieve", context |-> retrieved_context])
         IN  IF fault = "raise" THEN OuterExcept(entered)
             ELSE IF ~Truthy(retrieved_context)
             THEN [looked EXCEPT !.response = OkResponse(MsgNoProduct), !.pc = "route_general"]
             ELSE IF ~gemini_model
             THEN [looked EXCEPT !.response = OkResponse(MsgModelNotReady),
                                 !.pc = "route_general"]
             ELSE [looked EXCEPT !.outgoing = RagPrompt(retrieved_context.v, s.user_query),
                                 !.pc = "rag_call"]
    ELSE IF s.intent = "order_status"
    THEN LET entered == Logged(s, [e |-> "handler", name |-> "order_status"])
         IN  IF available_tools = << >>
             THEN [entered EXCEPT !.response = ErrorResponse(MsgNoTools, 500),
                                  !.pc = "route_general"]
             ELSE [entered EXCEPT !.outgoing = s.user_query, !.pc = "round1"]
    ELSE [s EXCEPT !.pc = "route_general"]

\* The routing with the FAQ block's intent accepted by the product test:
\* a request still classified faq runs the product-info handler too.
MainStep_faq_as_product(s, fault) ==
    IF s.intent \in {"product_info", "faq"}
    THEN LET entered == Logged(s, [e |-> "handler", name |-> "product_info"])
             retrieved_context == IF fault = "miss" THEN PyNone
                                  ELSE retrieve_product_info(s.user_query)
             looked == Logged(entered, [e |-> "retrieve", context |-> retrieved_context])
         IN  IF fault = "raise" THEN OuterExcept(entered)
             ELSE IF ~Truthy(retrieved_context)
             THEN [looked EXCEPT !.response = OkResponse(MsgNoProduct), !.pc = "route_general"]
             ELSE IF ~gemini_model
             THEN [looked EXCEPT !.response = OkResponse(MsgModelNotReady),
                                 !.pc = "route_general"]
             ELSE [looked EXCEPT !.outgoing = RagPrompt(retrieved_context.v, s.user_query),
                                 !.pc = "rag_call"]
    ELSE IF s.intent = "order_status"
    THEN LET entered == Logged(s, [e |-> "handler", name |-> "order_status"])
         IN  IF ~gemini_model
             THEN [entered EXCEPT !.response = ErrorResponse(MsgModelUnavailable, 500),
                                  !.pc = "route_general"]
             ELSE IF available_tools = << >>
             THEN [entered EXCEPT !.response = ErrorResponse(MsgNoTools, 500),
                                  !.pc = "route_general"]
             ELSE [entered EXCEPT !.outgoing = s.user_query, !.pc = "round1"]
    ELSE [s EXCEPT !.pc = "route_general"]

\* if intent == "product_info": ... elif intent == "order_status": ...
\* up to the first call of the generation client.  fault: the retriever
\* raises ("raise") or returns None ("miss") where that of data_store.py
\* would return a context ("none").
MainStep(s, fault) ==
    IF s.intent = "product_info"
    THEN LET entered == Logged(s, [e |-> "handler", name |-> "product_info"])
             retrieved_context == IF fault = "miss" THEN PyNone
                                  ELSE retrieve_product_info(s.user_query)
             looked == Logged(entered, [e |-> "retrieve", context |-> retrieved_context])
         IN  IF fault = "raise" THEN OuterExcept(entered)
             ELSE IF ~Truthy(retrieved_context)
             THEN [looked EXCEPT !.response = OkResponse(MsgNoProduct), !.pc = "route_general"]
             ELSE IF ~gemini_model
             THEN [looked EXCEPT !.response = OkResponse(MsgModelNotReady),
                                 !.pc = "route_general"]
             ELSE [looked EXCEPT !.outgoing = RagPrompt(retrieved_context.v, s.user_query),
                                 !.pc = "rag_call"]
    ELSE IF s.intent = "order_status"
    THEN LET entered == Logged(s, [e |-> "handler", name |-> "order_status"])
         IN  IF ~gemini_model
             THEN [entered EXCEPT !.response = ErrorResponse(MsgModelUnavailable, 500),
                                  !.pc = "route_general"]
             ELSE IF available_tools = << >>
             THEN [entered EXCEPT !.response = ErrorResponse(MsgNoTools, 500),
                                  !.pc = "route_general"]
             ELSE [entered EXCEPT !.outgoing = s.user_query, !.pc = "round1"]
    ELSE [s EXCEPT !.pc = "route_general"]

\* One call of the generation client: what was sent, and what came back.
Generate(site, payload, tools, reply) ==
    [e |-> "generate", site |-> site, payload |-> payload, tools |-> tools, reply |-> reply]

\* The RAG handler answering a failed call like a retrieval that found
\* nothing.
RagStep_failure_as_no_context(s, reply) ==
    LET called == Logged(s, Generate("rag", s.outgoing, << >>, reply))
        response_text ==
            IF reply.t = "raises" THEN MsgNoProduct
            ELSE ExtractPartsFirst(reply, MsgRagBlocked, MsgRagUnexpected, MsgRagExtractFailed)
    IN  [called EXCEPT !.response = OkResponse(response_text), !.pc = "route_general"]

\* gemini_model.generate_content(prompt_for_ai) of the RAG handler, and the
\* extraction of its text.
RagStep(s, reply) ==
    LET called == Logged(s, Generate("rag", s.outgoing, << >>, reply))
        response_text ==
            IF reply.t = "raises" THEN MsgRagFailed
            ELSE ExtractPartsFirst(reply, MsgRagBlocked, MsgRagUnexpected, MsgRagExtractFailed)
    IN  [called EXCEPT !.response = OkResponse(response_text), !.pc = "route_general"]

\* The function call searched in every segment of the reply, not only the
\* first.
FunctionCallOf_any_segment(reply) ==
    IF HasParts(reply)
    THEN LET parts == reply.candidates[1].parts
             calls == {i \in 1..Len(parts) :
                         /\ parts[i].function_call # PyNone
                         /\ parts[i].function_call.name = "get_order_info"}
         IN  IF calls = {} THEN PyNone
             ELSE parts[CHOOSE i \in calls : \A j \in calls : i <= j].function_call
    ELSE PyNone

\* The function call of a round-1 reply: its first segment, when that asks
\* for get_order_info.
FunctionCallOf(reply) ==
    IF HasParts(reply)
    THEN LET part == reply.candidates[1].parts[1]
         IN  IF part.function_call # PyNone /\ part.function_call.name = "get_order_info"
             THEN part.function_call ELSE PyNone
    ELSE PyNone

\* Round 1 asking the store for the order id in capitals rather than as the
\* model supplied it.
Round1Step_capitals(s, reply) ==
    LET called == Logged(s, Generate("round1", s.outgoing, available_tools, reply))
    IN  IF reply.t = "raises" THEN OrderFailed(called, reply.error)
        ELSE IF reply.t = "broken" THEN OrderFailed(called, "AttributeError")
        ELSE LET function_call == FunctionCallOf(reply)
             IN  IF function_call = PyNone
                 THEN [called EXCEPT
                         !.response = OkResponse(ExtractPartsFirst(reply, MsgInitialBlocked,
                                            MsgInitialParseDefault, MsgInitialParseDefault)),
                         !.pc = "route_general"]
                 ELSE IF function_call.args = PyNone THEN OrderFailed(called, "AttributeError")
                 ELSE LET supplied == Get(function_call.args, "order_id")
                          order_id_from_ai == IF supplied.t = "str"
                                              THEN PyStr(Upper(supplied.v)) ELSE supplied
                          outcome == get_order_info(order_id_from_ai)
                          looked == Logged(called, [e |-> "order_lookup",
                                                    order_id |-> order_id_from_ai,
                                                    outcome |-> outcome])
                          content == FunctionResponseContent(order_id_from_ai, outcome.value)
                      IN  IF outcome.raised THEN OrderFailed(looked, "AttributeError")
                          ELSE IF ~protos
                          THEN OrderFailed(Logged(looked, [e |-> "tool_result", content |-> content]),
                                           "Protos module is required for history construction.")
                          ELSE [Logged(looked, [e |-> "tool_result", content |-> content])
                                EXCEPT !.outgoing = History(s.user_query, reply.candidates[1],
                                                            content),
                                       !.pc = "round2"]

\* Round 1 with the tool schema; then either the text of the reply, or the
\* order lookup and the history for round 2.
Round1Step(s, reply) ==
    LET called == Logged(s, Generate("round1", s.outgoing, available_tools, reply))
    IN  IF reply.t = "raises" THEN OrderFailed(called, reply.error)
        ELSE IF reply.t = "broken" THEN OrderFailed(called, "AttributeError")
        ELSE LET function_call == FunctionCallOf(reply)
             IN  IF function_call = PyNone
                 THEN [called EXCEPT
                         !.response = OkResponse(ExtractPartsFirst(reply, MsgInitialBlocked,
                                            MsgInitialParseDefault, MsgInitialParseDefault)),
                         !.pc = "route_general"]
                 ELSE IF function_call.args = PyNone THEN OrderFailed(called, "AttributeError")
                 ELSE LET order_id_from_ai == Get(function_call.args, "order_id")
                          outcome == get_order_info(order_id_from_ai)
                          looked == Logged(called, [e |-> "order_lookup",
                                                    order_id |-> order_id_from_ai,
                                                    outcome |-> outcome])
                          content == FunctionResponseContent(order_id_from_ai, outcome.value)
                      IN  IF outcome.raised THEN OrderFailed(looked, "AttributeError")
                          ELSE IF ~protos
                          THEN OrderFailed(Logged(looked, [e |-> "tool_result", content |-> content]),
                                           "Protos module is required for history construction.")
                          ELSE [Logged(looked, [e |-> "tool_result", content |-> content])
                                EXCEPT !.outgoing = History(s.user_query, reply.candidates[1],
                                                            content),
                                       !.pc = "round2"]

\* Round 2: the history, without tools, and the extraction of the final text.
Round2Step(s, reply) ==
    LET called == Logged(s, Generate("round2", s.outgoing, << >>, reply))
    IN  IF reply.t = "raises" THEN OrderFailed(called, reply.error)
        ELSE [called EXCEPT
                !.response = OkResponse(ExtractPartsFirst(reply, MsgFinalBlocked,
                                            MsgFinalParseDefault, MsgFinalParseDefault)),
                !.pc = "route_general"]

\* Please respond in English.\n\nUser query: {user_query}
GeneralPrompt(user_query) == <<"Please respond in English.\n\nUser query: ">> \o user_query

\* The general-chat block without its test of intent: it runs after every
\* handler.
GeneralStep_every_intent(s) ==
    LET entered == Logged(s, [e |-> "handler", name |-> "general_chat"])
    IN  IF ~gemini_api_key \/ ~gemini_model
        THEN [entered EXCEPT !.response = ErrorResponse(MsgModelUnavailable, 500),
                             !.pc = "final"]
        ELSE [entered EXCEPT !.outgoing = GeneralPrompt(s.user_query),
                             !.pc = "general_call"]

\* The general-chat block testing the intent as it was classified, not as
\* the FAQ block left it: after an FAQ miss no handler answers.
GeneralStep_original_intent(s) ==
    IF s.log[1].intent = "general_chat"
    THEN LET entered == Logged(s, [e |-> "handler", name |-> "general_chat"])
         IN  IF ~gemini_api_key \/ ~gemini_model
             THEN [entered EXCEPT !.response = ErrorResponse(MsgModelUnavailable, 500),
                                  !.pc = "final"]
             ELSE [entered EXCEPT !.outgoing = GeneralPrompt(s.user_query),
                                  !.pc = "general_call"]
    ELSE [s EXCEPT !.pc = "final"]

\* if intent == "general_chat": up to the call of the generation client.
GeneralStep(s) ==
    IF s.intent = "general_chat"
    THEN LET entered == Logged(s, [e |-> "handler", name |-> "general_chat"])
         IN  IF ~gemini_api_key \/ ~gemini_model
             THEN [entered EXCEPT !.response = ErrorResponse(MsgModelUnavailable, 500),
                                  !.pc = "final"]
             ELSE [entered EXCEPT !.outgoing = GeneralPrompt(s.user_query),
                                  !.pc = "general_call"]
    ELSE [s EXCEPT !.pc = "final"]

\* gemini_model.generate_content(prompt_with_instruction) and the extraction.
GeneralCallStep(s, reply) ==
    LET called == Logged(s, Generate("general", s.outgoing, << >>, reply))
    IN  IF reply.t = "raises"
        THEN [called EXCEPT !.response = ErrorResponse(MsgGeneralFailed(reply.error), 500),
                            !.pc = "final"]
        ELSE [called EXCEPT
                !.response = OkResponse(ExtractTextFirst(reply, MsgGeneralBlocked,
                                            MsgGeneralParseDefault, MsgGeneralParseDefault)),
                !.pc = "final"]

\* if response is None: ...; return response
FinalStep(s) ==
    LET response == IF s.response = PyNone THEN ErrorResponse(MsgNoResponse, 500)
                    ELSE s.response
    IN  [s EXCEPT !.response = response, !.result = response, !.pc = "done"]

------------------------------------------------------------------------------
(* Actions                                                                 *)

\* user_query kept in a module-level variable instead of a local of chat():
\* what one request writes, every request in progress reads.
Update_shared_query(r, s) ==
    /\ req' = [q \in Requests |->
                IF q = r THEN s
                ELSE IF req[q].pc \in {"idle", "done"} THEN req[q]
                ELSE [req[q] EXCEPT !.user_query = s.user_query]]
    /\ UNCHANGED <<store, config>>

\* One request takes a step: its locals change, and nothing else.
Update(r, s) == req' = [req EXCEPT ![r] = s] /\ UNCHANGED <<store, config>>

\* A client posts a body to /chat.
Receive(r) ==
    /\ req[r].pc = "idle"
    /\ \E body \in Bodies : Update(r, [req[r] EXCEPT !.body = body, !.pc = "parse"])

Parse(r) == req[r].pc = "parse" /\ Update(r, ParseStep(req[r]))

Classify(r, faults) ==
    /\ req[r].pc = "classify"
    /\ \E fault \in faults : Update(r, ClassifyStep(req[r], fault))

RouteFaq(r, faults) ==
    /\ req[r].pc = "route_faq"
    /\ \E fault \in faults : Update(r, FaqStep(req[r], fault))

RouteMain(r, faults) ==
    /\ req[r].pc = "route_main"
    /\ \E fault \in faults : Update(r, MainStep(req[r], fault))

RagCall(r) ==
    /\ req[r].pc = "rag_call"
    /\ \E reply \in Replies : Update(r, RagStep(req[r], reply))

Round1(r) ==
    /\ req[r].pc = "round1"
    /\ \E reply \in Replies : Update(r, Round1Step(req[r], reply))

Round2(r) ==
    /\ req[r].pc = "round2"
    /\ \E reply \in Replies : Update(r, Round2Step(req[r], reply))

RouteGeneral(r) == req[r].pc = "route_general" /\ Update(r, GeneralStep(req[r]))

GeneralCall(r) ==
    /\ req[r].pc = "general_call"
    /\ \E reply \in Replies : Update(r, GeneralCallStep(req[r], reply))

Finish(r) == req[r].pc = "final" /\ Update(r, FinalStep(req[r]))

\* The process after start-up: the data of data_store.py (or the FAQ table
\* with one more entry), the model handle and the API key both set or both
\* missing, protos imported or not, and no request yet.
Init ==
    /\ faq_database \in FaqTables
    /\ product_database = ProductsReal
    /\ order_database = OrdersReal
    /\ gemini_model \in BOOLEAN
    /\ gemini_api_key = gemini_model
    /\ protos \in BOOLEAN
    /\ req = [r \in Requests |-> InitReq]

\* What may go wrong in a lookup.  "none": the lookup does what the code of
\* data_store.py does.
NoFault == {"none"}

\* detect_intent: get_faq_answer or find_product raises.
ClassifyFaults == {"none", "faq", "product"}

\* The FAQ block: get_faq_answer raises, or finds nothing.
FaqFaults == {"none", "raise", "miss"}

\* The product-info handler: retrieve_product_info raises, or finds nothing.
RetrieverFaults == {"none", "raise", "miss"}

\* One request, served by the code as it is: the lookups are those of
\* data_store.py.
Next ==
    \/ Receive(1)
    \/ Parse(1)
    \/ Classify(1, NoFault)
    \/ RouteFaq(1, NoFault)
    \/ RouteMain(1, NoFault)
    \/ RagCall(1)
    \/ Round1(1)
    \/ Round2(1)
    \/ RouteGeneral(1)
    \/ GeneralCall(1)
    \/ Finish(1)

Spec == Init /\ [][Next]_vars

\* One request, with a store whose lookups may raise, or miss an entry they
\* found a moment before.
FaultNext ==
    \/ Receive(1)
    \/ Parse(1)
    \/ Classify(1, ClassifyFaults)
    \/ RouteFaq(1, FaqFaults)
    \/ RouteMain(1, RetrieverFaults)
    \/ RagCall(1)
    \/ Round1(1)
    \/ Round2(1)
    \/ RouteGeneral(1)
    \/ GeneralCall(1)
    \/ Finish(1)

FaultSpec == Init /\ [][FaultNext]_vars

\* The same, with the request thread running on: the handler takes its next
\* step, and every call of the generation client returns or raises.
FairFaultSpec == FaultSpec /\ WF_vars(FaultNext)

------------------------------------------------------------------------------
(* Properties                                                              *)

\* The request has been classified: the first thing chat() does after
\* parsing.
Classified(s) == s.log # << >> /\ s.log[1].e = "classify"

\* The events of one kind, in order.
Events(s, kind) == SelectSeq(s.log, LAMBDA ev : ev.e = kind)

\* The rules of the cascade, each stated on its own.
FaqRule(q) == q \in DOMAIN faq_database

ProductRule(q) ==
    \E i \in 1..Len(product_database) :
        \/ NameMatches(product_database[i], Lower(q))
        \/ KeywordMatches(product_database[i], Lower(q))

OrderRule(q) == HasOrderKeyword(Lower(q)) \/ LabelledIdPattern(q) \/ StandaloneIdPattern(q)

\* C1: a query equal to a key of the FAQ table is classified faq, and the
\* request ends with {"response": <the answer stored under that key>},
\* status 200, the answer unchanged.
C1_FaqAnswered ==
    \A r \in Requests :
        LET s == req[r]
        IN  (Classified(s) /\ s.user_query \in DOMAIN faq_database) =>
                /\ s.log[1].intent = "faq"
                /\ s.pc = "done" =>
                     s.result = [t |-> "result", key |-> "response",
                                 text |-> faq_database[s.user_query], status |-> 200]

\* The shipping question of the real table has been answered.
C1_Witness ==
    \E r \in Requests :
        /\ req[r].pc = "done"
        /\ faq_database = FaqReal
        /\ req[r].user_query = FaqKeyShipping
        /\ req[r].result.text = FaqAnswerShipping

\* C2: the intent is that of the earliest rule that matches, in the order
\* FAQ, product, order keyword or order-id pattern; general_chat exactly
\* when no rule matches.  (Stated where detect_intent has just returned.)
C2_RulePrecedence ==
    \A r \in Requests :
        LET s == req[r]
            q == s.user_query
            intent == s.intent
        IN  s.pc = "route_faq" =>
                /\ FaqRule(q) => intent = "faq"
                /\ (~FaqRule(q) /\ ProductRule(q)) => intent = "product_info"
                /\ (~FaqRule(q) /\ ~ProductRule(q) /\ OrderRule(q)) => intent = "order_status"
                /\ intent = "general_chat" <=> ~(FaqRule(q) \/ ProductRule(q) \/ OrderRule(q))

\* A query that matches the FAQ rule, the product rule and the order rule
\* has been classified faq.
C2_Witness ==
    \E r \in Requests :
        LET s == req[r]
        IN  /\ Classified(s)
            /\ FaqRule(s.user_query) /\ ProductRule(s.user_query) /\ OrderRule(s.user_query)
            /\ s.log[1].intent = "faq"

\* A query that matches the product rule and the order rule, and no FAQ key,
\* has been classified product_info.
C2_WitnessProductOverOrder ==
    \E r \in Requests :
        LET s == req[r]
        IN  /\ Classified(s)
            /\ ~FaqRule(s.user_query) /\ ProductRule(s.user_query) /\ OrderRule(s.user_query)
            /\ s.log[1].intent = "product_info"

\* The body carries "query" and its value is a string.
HasStringQuery(body) == body.t = "dict" /\ "query" \in DOMAIN body /\ body.query.t = "str"

\* A lookup that detect_intent calls for this query raises.
LookupFailed(q, fault) == fault = "faq" \/ (fault = "product" /\ ~FaqRule(q))

\* C3: classification never raises to chat() and yields one of the four
\* intents; when a lookup it uses raises, the result is general_chat.
C3_ClassificationTotal ==
    \A r \in Requests :
        LET s == req[r]
        IN  /\ (s.pc \notin {"idle", "parse", "classify"} /\ HasStringQuery(s.body)) =>
                    Classified(s)
            /\ Classified(s) =>
                    /\ s.log[1].intent \in Intents
                    /\ LookupFailed(s.user_query, s.log[1].fault) =>
                            s.log[1].intent = "general_chat"

\* find_product raised on a query that names a product, and the query was
\* classified general_chat.
C3_Witness ==
    \E r \in Requests :
        LET s == req[r]
        IN  /\ Classified(s)
            /\ s.log[1].fault = "product"
            /\ ~FaqRule(s.user_query) /\ ProductRule(s.user_query)
            /\ s.log[1].intent = "general_chat"

\* C4: once set by the classifier, intent changes only from faq to
\* general_chat, and only in the step whose FAQ lookup found no answer (so
\* at most once: general_chat is never reassigned).
C4_IntentTransitions ==
    [][\A r \in Requests :
          req'[r].intent # req[r].intent =>
              \/ req[r].intent = "unset" /\ req[r].pc = "classify"
              \/ /\ req[r].intent = "faq"
                 /\ req'[r].intent = "general_chat"
                 /\ req'[r].log[Len(req'[r].log)] = [e |-> "faq_lookup", answer |-> PyNone]
                 /\ Len(req'[r].log) = Len(req[r].log) + 2]_vars

\* A request classified faq whose intent is now general_chat.
C4_Witness ==
    \E r \in Requests :
        /\ Classified(req[r])
        /\ req[r].log[1].intent = "faq"
        /\ req[r].intent = "general_chat"

\* The names of the handler blocks entered, in order.
HandlersRun(s) ==
    LET entered == Events(s, "handler")
    IN  [i \in 1..Len(entered) |-> entered[i].name]

\* The classifier said faq and the FAQ lookup of chat() found nothing.
FaqMissed(s) ==
    /\ Classified(s)
    /\ s.log[1].intent = "faq"
    /\ Events(s, "faq_lookup") # << >>
    /\ Events(s, "faq_lookup")[1].answer = PyNone

C6_GenerationCalls ==
    \A r \in Requests :
        LET s == req[r]
            calls == Events(s, "generate")
        IN  /\ Len(calls) <= 2
            /\ Len(calls) = 2 =>
                    /\ calls[1].site = "round1" /\ calls[2].site = "round2"
                    /\ s.intent = "order_status"
            /\ s.intent # "order_status" => Len(calls) <= 1
            /\ (s.pc = "done" /\ s.intent = "general_chat" /\ gemini_model) =>
                    Len(calls) = 1 /\ calls[1].site = "general"

\* A finished request that made both rounds.
C6_Witness ==
    \E r \in Requests : req[r].pc = "done" /\ Len(Events(req[r], "generate")) = 2

\* What chat() may return: {"response": text} or {"error": text}.
IsResult(x) == x.t = "result" /\ x.key \in {"response", "error"}

\* C7: every request that reaches chat() ends, with exactly one result, which
\* is a {response} or an {error} object; no exception leaves chat().  In
\* parts: a request has a result exactly when chat() has returned, and it is
\* of one of the two shapes; a request that has entered chat() never starts
\* again, and one that has returned changes no more; and from some point on
\* no request is inside chat().
C7_OneResult ==
    /\ [](\A r \in Requests :
            IF req[r].pc = "done" THEN IsResult(req[r].result)
            ELSE req[r].result = PyNone)
    /\ [][\A r \in Requests :
            /\ req[r].pc # "idle" => req'[r].pc # "idle"
            /\ req[r].pc = "done" => req'[r] = req[r]]_vars
    /\ <>[](\A r \in Requests : req[r].pc \in {"idle", "done"})

\* A lookup raised after classification and the request still ended with an
\* {error} object.
C7_Witness ==
    \E r \in Requests :
        /\ req[r].pc = "done"
        /\ Classified(req[r])
        /\ req[r].result = ErrorResponse(MsgUnexpected, 500)

\* "query" is missing, empty or whitespace only.
BlankQuery(body) ==
    \/ body = PyNone
    \/ body.t = "dict" /\ "query" \notin DOMAIN body
    \/ HasStringQuery(body) /\ Strip(body.query.v) = << >>

\* C8: a request whose query is missing, empty or whitespace-only ends with
\* an {error} of status 400 and is never classified; a request with any
\* other string as query is classified.
C8_BlankQueryRejected ==
    \A r \in Requests :
        LET s == req[r]
        IN  s.pc \notin {"idle", "parse"} =>
                /\ BlankQuery(s.body) =>
                        /\ s.pc = "done"
                        /\ s.log = << >>
                        /\ s.result = ErrorResponse(MsgNoQuery, 400)
                /\ (HasStringQuery(s.body) /\ ~BlankQuery(s.body)) => Classified(s)

\* ORD123の状況を教えて
OrderScenarioQuery ==
    <<"O","R","D","1","2","3","h_no","j_jou","j_kyou","h_wo","j_oshi","h_e","h_te">>

\* The reply asks, in its first segment, for get_order_info.
FirstSegmentIsOrderCall(reply) ==
    /\ reply.candidates # << >>
    /\ reply.candidates[1].parts # << >>
    /\ reply.candidates[1].parts[1].function_call # PyNone
    /\ reply.candidates[1].parts[1].function_call.name = "get_order_info"

\* The round-1 calls of the request.
Round1Calls(s) == SelectSeq(Events(s, "generate"), LAMBDA ev : ev.site = "round1")

\* C9: the query ORD123の状況を教えて is classified order_status; and when the
\* round-1 reply asks for get_order_info with order_id ORD123, the store is
\* asked for ORD123 and the tool result carries the stored status and the
\* ship date.
C9_OrderScenario ==
    \A r \in Requests :
        LET s == req[r]
            asked == Events(s, "order_lookup")
            built == Events(s, "tool_result")
        IN  (Classified(s) /\ s.user_query = OrderScenarioQuery) =>
                /\ s.log[1].intent = "order_status"
                /\ (/\ built # << >>
                    /\ asked[1].order_id = PyStr(<<"O","R","D","1","2","3">>)) =>
                        /\ Contains(StatusShipped, built[1].content)
                        /\ Contains(<<"2025-04-10">>, built[1].content)

\* C10: when the first segment of the round-1 reply is not a call of
\* get_order_info, the order-status handler answers with the text extracted
\* from that reply, and makes no order lookup and no second call.
C10_NoCallNoLookup ==
    \A r \in Requests :
        LET s == req[r]
            first == Round1Calls(s)
        IN  (/\ s.pc \in {"route_general", "final", "done"}
             /\ first # << >>
             /\ first[1].reply.t = "response"
             /\ ~FirstSegmentIsOrderCall(first[1].reply)) =>
                /\ Events(s, "order_lookup") = << >>
                /\ Len(Events(s, "generate")) = 1
                /\ s.response = OkResponse(ExtractPartsFirst(first[1].reply, MsgInitialBlocked,
                                            MsgInitialParseDefault, MsgInitialParseDefault))

\* A round-1 reply whose second segment asks for get_order_info: the request
\* ended with the text of the first segment, and no lookup.
C10_Witness ==
    \E r \in Requests :
        LET s == req[r]
            first == Round1Calls(s)
        IN  /\ s.pc = "done"
            /\ first # << >>
            /\ first[1].reply.t = "response"
            /\ first[1].reply.candidates # << >>
            /\ first[1].reply.candidates[1].parts =
                    <<TextPart(1), CallPart("get_order_info", SomeArgs)>>
            /\ s.result = OkResponse(<<"model text 1">>)
            /\ Events(s, "order_lookup") = << >>

\* The round-2 calls of the request.
Round2Calls(s) == SelectSeq(Events(s, "generate"), LAMBDA ev : ev.site = "round2")

\* C11: the history sent in round 2 is exactly three turns: the user's turn
\* with the original query, the model's round-1 turn unchanged, and the tool
\* turn with the constructed result string; and round 2 carries no tool
\* schema.
C11_HistoryThreeTurns ==
    \A r \in Requests :
        LET s == req[r]
            first == Round1Calls(s)
            second == Round2Calls(s)
            built == Events(s, "tool_result")
        IN  second # << >> =>
                /\ second[1].tools = << >>
                /\ second[1].payload =
                        << Content("user", <<[text |-> PyStr(s.user_query)]>>),
                           first[1].reply.candidates[1],
                           Content("tool", <<[function_response |->
                                                [name |-> "get_order_info",
                                                 response |-> [result |-> built[1].content]]]>>) >>

------------------------------------------------------------------------------
(* Other data: the lists of data_store.py with other entries, which the    *)
(* comments of lines 92 and 114 invite                                     *)

\* Orders whose status differs from the real list: one in processing with
\* its estimated delivery, one delivered, and one shipped that has no
\* shipped_date but carries a delivered_date.
OrdersVariant ==
    << [order_id |-> PyStr(<<"O","R","D","1","2","3">>),
        customer_name |-> PyStr(<<"Test User A">>),
        status |-> PyStr(StatusProcessing),
        estimated_delivery |-> PyStr(<<"2025-04-16">>)],
       [order_id |-> PyStr(<<"O","R","D","4","5","6">>),
        customer_name |-> PyStr(<<"Test User B">>),
        status |-> PyStr(StatusDelivered),
        delivered_date |-> PyStr(<<"2025-04-12">>)],
       [order_id |-> PyStr(<<"X","Y","Z","7","8","9">>),
        customer_name |-> PyStr(<<"Test User C">>),
        status |-> PyStr(StatusShipped),
        delivered_date |-> PyStr(<<"2025-04-10">>)] >>

OrderTables == {OrdersReal, OrdersVariant}

\* Products whose names are not among their keywords: two that share the
\* keyword abc, one with a name and no keyword, and one whose name and
\* keyword both occur in a query that holds ORD123.
ProductsVariant ==
    << [id |-> <<"prod101">>,
        name |-> NameMug,
        keywords |-> << <<"a","b","c">> >>,
        price |-> 1500,
        description |-> <<"Mug cup.">>],
       [id |-> <<"prod102">>,
        name |-> NameTShirt,
        keywords |-> << >>,
        price |-> 3000,
        description |-> <<"T-shirt.">>],
       [id |-> <<"prod103">>,
        name |-> NamePen,
        keywords |-> << <<"a","b","c">> >>,
        price |-> 800,
        description |-> <<"Pen.">>],
       [id |-> <<"prod104">>,
        name |-> <<"O","R","D","1","2","3">>,
        keywords |-> << <<"o","r","d","1","2","3">>, <<"o","r","d">> >>,
        price |-> 100,
        description |-> <<"Order form.">>] >>

ProductTables == {ProductsReal, ProductsVariant}

\* The process started with either list of products and of orders, the real
\* FAQ table, and the model and protos available.
DataInit ==
    /\ faq_database = FaqReal
    /\ product_database \in ProductTables
    /\ order_database \in OrderTables
    /\ gemini_model = TRUE
    /\ gemini_api_key = TRUE
    /\ protos = TRUE
    /\ req = [r \in Requests |-> InitReq]

DataSpec == DataInit /\ [][Next]_vars

\* The order of order_database that a case-insensitive search for the id
\* finds, as a set of positions (empty: not found).
StoredUnder(id) ==
    IF id.t # "str" \/ id.v = << >> THEN {}
    ELSE {i \in 1..Len(order_database) :
            Upper(order_database[i].order_id.v) = Upper(id.v)}

\* The field that goes with a status.
StatusField ==
    (StatusShipped :> "shipped_date") @@ (StatusProcessing :> "estimated_delivery")
        @@ (StatusDelivered :> "delivered_date")

\* C12: the tool-result string holds, for an order that is found, the order
\* id as asked, the stored status and the field of that status when the order
\* has it; for an order that is not found it says "not found" and holds no
\* status.
C12_ToolResult ==
    \A r \in Requests :
        LET s == req[r]
            asked == Events(s, "order_lookup")
            built == Events(s, "tool_result")
        IN  built # << >> =>
                LET id == asked[1].order_id
                    content == built[1].content
                    found == StoredUnder(id)
                IN  IF found # {}
                    THEN LET order == order_database[CHOOSE i \in found : \A j \in found : i <= j]
                             field == StatusField[order.status.v]
                         IN  /\ Contains(id.v, content)
                             /\ Contains(order.status.v, content)
                             /\ field \in DOMAIN order => Contains(order[field].v, content)
                    ELSE /\ Contains(<<"' was not found.">>, content)
                         /\ \A status \in DOMAIN StatusField : ~Contains(status, content)

\* An order found under an id given in lower case, with its status and the
\* date of that status in the tool result.
C12_Witness ==
    \E r \in Requests :
        LET s == req[r]
            asked == Events(s, "order_lookup")
            built == Events(s, "tool_result")
        IN  /\ built # << >>
            /\ asked[1].order_id = PyStr(<<"x","y","z","7","8","9">>)
            /\ order_database = OrdersReal
            /\ built[1].content = <<"The status for Order ID '", "x","y","z","7","8","9",
                                    "' is '", "haitatsu-kanryou", "'.",
                                    " (Delivered on ", "2025-04-12", ")">>

\* A step of the order-status protocol raised: round 1, the reading of its
\* reply, the extraction of the arguments, the order lookup, the construction
\* of the history, or round 2.
OrderStepFailed(s) ==
    LET first == Round1Calls(s)
        second == Round2Calls(s)
        asked == Events(s, "order_lookup")
        built == Events(s, "tool_result")
    IN  /\ first # << >>
        /\ \/ first[1].reply.t \in {"raises", "broken"}
           \/ FirstSegmentIsOrderCall(first[1].reply)
                /\ first[1].reply.candidates[1].parts[1].function_call.args = PyNone
           \/ asked # << >> /\ asked[1].outcome.raised
           \/ built # << >> /\ ~protos
           \/ second # << >> /\ second[1].reply.t = "raises"

\* The message of the order-status handler for a failed step, taken from a
\* round 1 that raised "503 service unavailable".
OrderFailureText == MsgOrderFailed("503 service unavailable")

\* C13: when a step of the order-status protocol raises, the handler answers
\* with one error message, the same whichever step failed and whatever was
\* raised; nothing is raised to chat(), and no later step of the protocol
\* runs.
C13_SingleOrderError ==
    \A r \in Requests :
        LET s == req[r]
            first == Round1Calls(s)
            second == Round2Calls(s)
            asked == Events(s, "order_lookup")
            built == Events(s, "tool_result")
        IN  (s.pc \in {"route_general", "final", "done"} /\ OrderStepFailed(s)) =>
                /\ s.response = ErrorResponse(OrderFailureText, 500)
                /\ first[1].reply.t \in {"raises", "broken"} => asked = << >> /\ second = << >>
                /\ (asked # << >> /\ asked[1].outcome.raised) => built = << >> /\ second = << >>
                /\ (built # << >> /\ ~protos) => second = << >>

\* The ordered fallback of the extraction: the direct text field, then the
\* text segments of the first candidate joined, then the "blocked"
\* placeholder, then the "unexpected format" placeholder.
TextFieldFirst(reply, blockedText, unexpectedText) ==
    IF reply.text # PyNone THEN reply.text.v
    ELSE IF reply.candidates # << >> /\ reply.candidates[1].parts # << >>
    THEN JoinPartTexts(reply.candidates[1].parts)
    ELSE IF reply.block_reason THEN blockedText
    ELSE unexpectedText

\* The placeholders of each call site.
BlockedText ==
    [rag |-> MsgRagBlocked, round1 |-> MsgInitialBlocked,
     round2 |-> MsgFinalBlocked, general |-> MsgGeneralBlocked]

UnexpectedText ==
    [rag |-> MsgRagUnexpected, round1 |-> MsgInitialParseDefault,
     round2 |-> MsgFinalParseDefault, general |-> MsgGeneralParseDefault]

\* C14: at every call site (general chat, RAG, round 1 without a tool call,
\* round 2) the text taken from a reply is chosen by the same ordered
\* fallback, the direct text field first; so a reply with both a text field
\* and text segments gives its text field everywhere.
C14_SameExtraction ==
    \A r \in Requests :
        LET s == req[r]
            last == s.log[Len(s.log)]
        IN  (/\ s.log # << >>
             /\ last.e = "generate"
             /\ last.reply.t = "response"
             /\ last.site = "round1" => ~FirstSegmentIsOrderCall(last.reply)) =>
                s.response = OkResponse(TextFieldFirst(last.reply, BlockedText[last.site],
                                                       UnexpectedText[last.site]))

\* C15: when the retriever returns no context, the product-info handler
\* answers with the fixed "could not find relevant product information"
\* message, and the generation client is not called for the request.
C15_NoContextNoGeneration ==
    \A r \in Requests :
        LET s == req[r]
            retrieved == Events(s, "retrieve")
        IN  (retrieved # << >> /\ retrieved[1].context = PyNone)
                => /\ Events(s, "generate") = << >>
                   /\ s.response = OkResponse(MsgNoProduct)
                   /\ s.pc = "done" => s.result = OkResponse(MsgNoProduct)

\* A product question whose retrieval found nothing, answered.
C15_Witness ==
    \E r \in Requests :
        /\ req[r].pc = "done"
        /\ req[r].user_query = NameTShirt
        /\ Events(req[r], "retrieve") = <<[e |-> "retrieve", context |-> PyNone]>>
        /\ req[r].result = OkResponse(MsgNoProduct)

\* C16: when the retriever returned a context and the call of the generation
\* client raises, the product-info handler answers with its own apology,
\* which is not the "no context" message, and raises nothing: the request
\* goes on to the final check and ends with that answer, status 200.
C16_RagFailureApology ==
    \A r \in Requests :
        LET s == req[r]
            retrieved == Events(s, "retrieve")
            calls == Events(s, "generate")
        IN  (/\ retrieved # << >>
             /\ retrieved[1].context # PyNone
             /\ calls # << >>
             /\ calls[1].reply.t = "raises")
                => /\ calls[1].site = "rag"
                   /\ Len(calls) = 1
                   /\ s.pc \in {"route_general", "final", "done"}
                   /\ s.response = OkResponse(MsgRagFailed)
                   /\ s.response # OkResponse(MsgNoProduct)
                   /\ s.pc = "done" => s.result = OkResponse(MsgRagFailed)

\* A product question with a context, whose generation call raised, answered.
C16_Witness ==
    \E r \in Requests :
        /\ req[r].pc = "done"
        /\ req[r].user_query = NameTShirt
        /\ Len(Events(req[r], "retrieve")) = 1
        /\ Events(req[r], "retrieve")[1].context # PyNone
        /\ Len(Events(req[r], "generate")) = 1
        /\ Events(req[r], "generate")[1].reply.t = "raises"
        /\ req[r].result = OkResponse(MsgRagFailed)

\* The calls of the generation client made by the general-chat handler.
GeneralCalls(s) == SelectSeq(Events(s, "generate"), LAMBDA ev : ev.site = "general")

\* The message of the general-chat handler for a failed call, taken from a
\* call that raised "503 service unavailable".
GeneralFailureText == MsgGeneralFailed("503 service unavailable")

\* C17: a generation failure is answered with the handler's own fixed
\* message: the general-chat handler answers a call that raised with one
\* internal-error message whatever was raised, and the failure messages of
\* the product-info, order-status and general-chat handlers differ from one
\* another.
C17_FixedFailureMessages ==
    /\ MsgRagFailed # OrderFailureText
    /\ MsgRagFailed # GeneralFailureText
    /\ OrderFailureText # GeneralFailureText
    /\ \A r \in Requests :
        LET s == req[r]
            calls == GeneralCalls(s)
        IN  (calls # << >> /\ calls[1].reply.t = "raises")
                => s.response = ErrorResponse(GeneralFailureText, 500)

\* The score the retrieval gives product i of the list for a query: 2 for the
\* name, plus 1 for the keywords however many of them occur.
ScoreOf(i, query) ==
    (IF Contains(Lower(product_database[i].name), Lower(query)) THEN 2 ELSE 0)
        + (IF \E k \in 1..Len(product_database[i].keywords) :
                    Contains(product_database[i].keywords[k], Lower(query))
           THEN 1 ELSE 0)

\* The products kept for a query.
Kept(query) == {i \in 1..Len(product_database) : ScoreOf(i, query) > 0}

\* The place of a kept product: after those of a higher score, and after
\* those of the same score that come before it in the list.
PlaceOf(i, query) ==
    1 + Cardinality({j \in Kept(query) :
                        \/ ScoreOf(j, query) > ScoreOf(i, query)
                        \/ ScoreOf(j, query) = ScoreOf(i, query) /\ j < i})

\* The context of the products in the first two places, or None.
ContextOfBest(query) ==
    IF Kept(query) = {} THEN PyNone
    ELSE LET n == IF Cardinality(Kept(query)) < 2 THEN Cardinality(Kept(query)) ELSE 2
             at(place) == CHOOSE i \in Kept(query) : PlaceOf(i, query) = place
         IN  PyStr(ContextHeader
                    \o JoinWith(ContextSeparator,
                                [place \in 1..n |-> InfoStr(product_database[at(place)])]))

\* A request whose query has just been read from the body.
HasQuery(s) == s.pc = "classify"

\* A request whose last step was the retrieval of the product-info handler.
JustRetrieved(s) == s.log # << >> /\ s.log[Len(s.log)].e = "retrieve"

\* C18: retrieve_product_info gives each product 2 for its name in the
\* lower-cased query plus 1 for its keywords (a score in 0..3), keeps the
\* products with a positive score, orders them by descending score with
\* ties in the order of the list, and returns the first 2, or None when no
\* product has a positive score.  Checked on the query of every request when
\* it has been read, and on the context the product-info handler retrieved.
C18_Retrieval ==
    \A r \in Requests :
        LET s == req[r]
        IN  /\ HasQuery(s) =>
                /\ \A i \in 1..Len(product_database) :
                        /\ MatchScore(product_database[i], Lower(s.user_query))
                                = ScoreOf(i, s.user_query)
                        /\ ScoreOf(i, s.user_query) \in 0..3
                /\ retrieve_product_info(s.user_query) = ContextOfBest(s.user_query)
            /\ JustRetrieved(s) =>
                s.log[Len(s.log)].context = ContextOfBest(s.user_query)

\* Three products match "abcORD123": the mug and the pen by a keyword, the
\* order form by its name and a keyword.  The context holds the order form,
\* then the mug.
C18_Witness ==
    \E r \in Requests :
        /\ product_database = ProductsVariant
        /\ req[r].user_query = <<"a","b","c","O","R","D","1","2","3">>
        /\ Events(req[r], "retrieve") =
              <<[e |-> "retrieve",
                 context |-> PyStr(ContextHeader \o InfoStr(ProductsVariant[4])
                                    \o ContextSeparator \o InfoStr(ProductsVariant[1]))]>>

------------------------------------------------------------------------------
(* Concurrent requests                                                     *)

\* The bodies of the concurrent requests: an FAQ question, a product
\* question, an order question, small talk, and a body without "query".
ConcBodies ==
    { [t |-> "dict", query |-> PyStr(FaqKeyShipping)],
      [t |-> "dict", query |-> PyStr(NameTShirt)],
      [t |-> "dict", query |-> PyStr(<<"I","D",":","a","b","c">>)],
      [t |-> "dict", query |-> PyStr(<<"a","b","c">>)],
      [t |-> "dict"] }

\* The replies of the generation client to the concurrent requests: a text,
\* a call of get_order_info, or an exception.
ConcReplies ==
    { Response(<<Content("model", <<TextPart(1)>>)>>, PyNone, FALSE),
      Response(<<Content("model",
                         <<CallPart("get_order_info",
                                    [t |-> "map",
                                     order_id |-> PyStr(<<"O","R","D","1","2","3">>)])>>)>>,
               PyNone, FALSE),
      [t |-> "raises", error |-> "deadline exceeded"] }

\* The replies a request has received, in order.
RepliesOf(s) ==
    LET calls == Events(s, "generate") IN [i \in 1..Len(calls) |-> calls[i].reply]

ConcLimit ==
    \A r \in Requests :
        /\ req[r].pc # "idle" => req[r].body \in ConcBodies
        /\ \A i \in 1..Len(RepliesOf(req[r])) : RepliesOf(req[r])[i] \in ConcReplies

\* The worker threads of the server: each request is handled by its own
\* call of chat(), and the steps of the calls interleave in any order.
ConcNext ==
    \/ \E r \in Requests : Receive(r) /\ ConcLimit'
    \/ \E r \in Requests : Parse(r)
    \/ \E r \in Requests : Classify(r, NoFault)
    \/ \E r \in Requests : RouteFaq(r, NoFault)
    \/ \E r \in Requests : RouteMain(r, NoFault)
    \/ \E r \in Requests : RagCall(r) /\ ConcLimit'
    \/ \E r \in Requests : Round1(r) /\ ConcLimit'
    \/ \E r \in Requests : Round2(r) /\ ConcLimit'
    \/ \E r \in Requests : RouteGeneral(r)
    \/ \E r \in Requests : GeneralCall(r) /\ ConcLimit'
    \/ \E r \in Requests : Finish(r)

ConcSpec == Init /\ [][ConcNext]_vars

\* Where chat() waits for the generation client.
CallSites == {"rag_call", "round1", "round2", "general_call"}

\* The next step of one call of chat(), given the reply of the generation
\* client if the step is a call.
StepOf(s, reply) ==
    CASE s.pc = "parse" -> ParseStep(s)
      [] s.pc = "classify" -> ClassifyStep(s, "none")
      [] s.pc = "route_faq" -> FaqStep(s, "none")
      [] s.pc = "route_main" -> MainStep(s, "none")
      [] s.pc = "rag_call" -> RagStep(s, reply)
      [] s.pc = "round1" -> Round1Step(s, reply)
      [] s.pc = "round2" -> Round2Step(s, reply)
      [] s.pc = "route_general" -> GeneralStep(s)
      [] s.pc = "general_call" -> GeneralCallStep(s, reply)
      [] s.pc = "final" -> FinalStep(s)

\* The states one call of chat() passes through when it runs alone from s
\* and the generation client answers with replies, in order.
RECURSIVE AloneFrom(_, _)
AloneFrom(s, replies) ==
    {s} \cup
        (IF s.pc = "done" THEN {}
         ELSE IF s.pc \in CallSites
         THEN IF replies = << >> THEN {}
              ELSE AloneFrom(StepOf(s, Head(replies)), Tail(replies))
         ELSE AloneFrom(StepOf(s, PyNone), replies))

\* C19: requests are independent.  However the steps of two requests
\* interleave, no step changes the FAQ, product or order data, and each
\* request is in a state (classification, lookups, history, response and
\* result) that the same body reaches alone with the same replies of the
\* generation client.
C19_Independent ==
    /\ [][UNCHANGED store]_vars
    /\ [](\A r \in Requests :
            req[r].pc # "idle" =>
                req[r] \in AloneFrom([InitReq EXCEPT !.body = req[r].body, !.pc = "parse"],
                                     RepliesOf(req[r])))

\* Both requests are in progress, on different questions, each past its
\* first call of the generation client.
C19_Witness ==
    /\ req[1].pc = "round2"
    /\ req[2].pc = "done"
    /\ req[2].user_query = NameTShirt
    /\ Len(RepliesOf(req[1])) = 1
    /\ Len(RepliesOf(req[2])) = 1

\* The result of the final check when no handler has set a response.
NoResponseResult == ErrorResponse(MsgNoResponse, 500)

------------------------------------------------------------------------------
(* The same question asked twice                                           *)

\* The bodies of two requests that may ask the same question: one that
\* matches three products of ProductsVariant, a product name, an order
\* question and an FAQ question.
TwiceBodies ==
    { [t |-> "dict", query |-> PyStr(<<"a","b","c","O","R","D","1","2","3">>)],
      [t |-> "dict", query |-> PyStr(NameTShirt)],
      [t |-> "dict", query |-> PyStr(<<"I","D",":","a","b","c">>)],
      [t |-> "dict", query |-> PyStr(FaqKeyShipping)] }

TwiceLimit ==
    \A r \in Requests :
        /\ req[r].pc # "idle" => req[r].body \in TwiceBodies
        /\ \A i \in 1..Len(RepliesOf(req[r])) : RepliesOf(req[r])[i] \in ConcReplies

\* Two calls of chat(), one after the other or interleaved.
TwiceNext ==
    \/ \E r \in Requests : Receive(r) /\ TwiceLimit'
    \/ \E r \in Requests : Parse(r)
    \/ \E r \in Requests : Classify(r, NoFault)
    \/ \E r \in Requests : RouteFaq(r, NoFault)
    \/ \E r \in Requests : RouteMain(r, NoFault)
    \/ \E r \in Requests : RagCall(r) /\ TwiceLimit'
    \/ \E r \in Requests : Round1(r) /\ TwiceLimit'
    \/ \E r \in Requests : Round2(r) /\ TwiceLimit'
    \/ \E r \in Requests : RouteGeneral(r)
    \/ \E r \in Requests : GeneralCall(r) /\ TwiceLimit'
    \/ \E r \in Requests : Finish(r)

TwiceSpec == DataInit /\ [][TwiceNext]_vars

PlacesOf(s, kind) == {i \in 1..Len(s.log) : s.log[i].e = kind}

\* The places in the log of the calls made at one site.
CallPlaces(s, site) == {i \in PlacesOf(s, "generate") : s.log[i].site = site}

\* C22: the order-status handler calls round 1 with the get_order_info
\* schema, then looks the order up, then calls round 2.  There is at most
\* one lookup per request; it follows at once a round-1 reply whose first
\* segment asks for get_order_info, and its order_id is the one in that
\* reply; round 2 is called at most once, after the lookup has returned an
\* order or None.
C22_OrderProtocol ==
    \A r \in Requests :
        LET s == req[r]
        IN  /\ Cardinality(CallPlaces(s, "round1")) <= 1
            /\ Cardinality(PlacesOf(s, "order_lookup")) <= 1
            /\ Cardinality(CallPlaces(s, "round2")) <= 1
            /\ \A i \in CallPlaces(s, "round1") :
                    s.log[i].tools = available_tools /\ available_tools # << >>
            /\ \A i \in PlacesOf(s, "order_lookup") :
                    /\ i - 1 \in CallPlaces(s, "round1")
                    /\ s.log[i - 1].reply.t = "response"
                    /\ FirstSegmentIsOrderCall(s.log[i - 1].reply)
                    /\ LET args == s.log[i - 1].reply.candidates[1].parts[1].function_call.args
                       IN  /\ args # PyNone
                           /\ s.log[i].order_id =
                                IF "order_id" \in DOMAIN args THEN args.order_id ELSE PyNone
            /\ \A k \in CallPlaces(s, "round2") :
                    \E i \in PlacesOf(s, "order_lookup") :
                        /\ i < k
                        /\ ~s.log[i].outcome.raised
                        /\ \/ s.log[i].outcome.value = PyNone
                           \/ \E n \in 1..Len(order_database) :
                                s.log[i].outcome.value = order_database[n]

\* Round 1 asked for the order xyz789; the store was asked for xyz789 and
\* returned the order XYZ789; then round 2 was called.
C22_Witness ==
    \E r \in Requests :
        LET s == req[r]
        IN  /\ Len(s.log) >= 6
            /\ s.log[3].e = "generate" /\ s.log[3].site = "round1"
            /\ s.log[4].e = "order_lookup"
            /\ s.log[4].order_id = PyStr(<<"x","y","z","7","8","9">>)
            /\ s.log[4].outcome = Return(OrdersReal[3])
            /\ s.log[6].e = "generate" /\ s.log[6].site = "round2"

\* The request was classified product_info.
ClassifiedProduct(s) == Classified(s) /\ s.log[1].intent = "product_info"

\* C23: the classifier and the retriever agree.  For the query of every
\* request and either list of products, find_product returns a product
\* exactly when retrieve_product_info returns a context; so a request
\* classified product_info retrieves a context, and is never answered with
\* the "could not find relevant product information" message.
C23_ClassifierRetrieverAgree ==
    \A r \in Requests :
        LET s == req[r]
        IN  /\ HasQuery(s) =>
                (Truthy(find_product(s.user_query))
                    <=> retrieve_product_info(s.user_query) # PyNone)
            /\ ClassifiedProduct(s) =>
                /\ s.response # OkResponse(MsgNoProduct)
                /\ s.result # OkResponse(MsgNoProduct)
                /\ \A i \in PlacesOf(s, "retrieve") : s.log[i].context # PyNone

\* "abc" is a keyword of two products of ProductsVariant and the name of
\* none: the request was classified product_info, retrieved a context and
\* was answered from it.
C23_Witness ==
    \E r \in Requests :
        /\ product_database = ProductsVariant
        /\ req[r].pc = "done"
        /\ req[r].user_query = <<"a","b","c">>
        /\ ClassifiedProduct(req[r])
        /\ PlacesOf(req[r], "retrieve") # {}
        /\ \A i \in PlacesOf(req[r], "retrieve") : req[r].log[i].context # PyNone
        /\ req[r].result = OkResponse(<<"model text 1">>)

------------------------------------------------------------------------------
(* Requests served without the model handle                                *)

\* The result of the order-status and general-chat blocks when the model
\* handle is missing.
ModelUnavailableResult == ErrorResponse(MsgModelUnavailable, 500)

\* The handler block of this name was entered.
Entered(s, name) == \E i \in PlacesOf(s, "handler") : s.log[i].name = name

\* C24: with the model handle missing no request calls the generation
\* client.  A finished request that entered the order-status block or the
\* general-chat block (after an FAQ miss as well) ends with the "not
\* available" error; one whose retrieval returned ends with the "model is
\* not ready" response when there was a context and with the "no relevant
\* product information" response when there was none; and one whose FAQ
\* lookup found an answer ends with that answer.
C24_NoModelNoGeneration ==
    ~gemini_model =>
        \A r \in Requests :
            LET s == req[r]
            IN  /\ PlacesOf(s, "generate") = {}
                /\ s.pc \notin {"rag_call", "round1", "round2", "general_call"}
                /\ s.pc = "done" =>
                    /\ Entered(s, "order_status") => s.result = ModelUnavailableResult
                    /\ Entered(s, "general_chat") => s.result = ModelUnavailableResult
                    /\ FaqMissed(s) => Entered(s, "general_chat")
                    /\ \A i \in PlacesOf(s, "retrieve") :
                          s.result = IF s.log[i].context # PyNone
                                     THEN OkResponse(MsgModelNotReady)
                                     ELSE OkResponse(MsgNoProduct)
                    /\ \A i \in PlacesOf(s, "faq_lookup") :
                          s.log[i].answer # PyNone => s.result = OkResponse(s.log[i].answer.v)

\* With the model handle missing, a finished product question whose
\* retrieval found a context and that got the "model is not ready"
\* response without a call of the generation client.
C24_Witness ==
    /\ ~gemini_model
    /\ \E r \in Requests :
          LET s == req[r]
          IN  /\ s.pc = "done"
              /\ ClassifiedProduct(s)
              /\ \E i \in PlacesOf(s, "retrieve") : s.log[i].context # PyNone
              /\ PlacesOf(s, "generate") = {}
              /\ s.result = OkResponse(MsgModelNotReady)

------------------------------------------------------------------------------
(* The FAQ hit                                                             *)

\* The classifier said faq and the FAQ lookup of chat() returned an answer.
FaqHit(s) ==
    /\ Classified(s)
    /\ s.log[1].intent = "faq"
    /\ \E i \in PlacesOf(s, "faq_lookup") : s.log[i].answer # PyNone

\* The answer that lookup returned.
FaqHitAnswer(s) ==
    s.log[CHOOSE i \in PlacesOf(s, "faq_lookup") : s.log[i].answer # PyNone].answer.v

\* What a request with an FAQ hit has done: the classification, the FAQ
\* block and its lookup, nothing else; its response is the answer, and its
\* result is unset until it is that response.
FaqHitOnly(s) ==
    /\ s.log = << s.log[1], [e |-> "handler", name |-> "faq"],
                  [e |-> "faq_lookup", answer |-> PyStr(FaqHitAnswer(s))] >>
    /\ HandlersRun(s) = <<"faq">>
    /\ PlacesOf(s, "generate") = {}
    /\ PlacesOf(s, "retrieve") = {}
    /\ PlacesOf(s, "order_lookup") = {}
    /\ s.intent = "faq"
    /\ s.response = OkResponse(FaqHitAnswer(s))
    /\ s.result = IF s.pc = "done" THEN s.response ELSE PyNone

\* The steps of a request around an FAQ hit: the step of the hit sets the
\* response, unset until then; no later step sets the response again or
\* calls anything; the result is set by one step, the final check.
FaqHitStep(s, t) ==
    /\ (~FaqHit(s) /\ FaqHit(t)) => (s.response = PyNone /\ s.result = PyNone)
    /\ FaqHit(s) =>
          /\ t.response = s.response
          /\ t.log = s.log
          /\ t.result # s.result => (s.pc = "final" /\ s.result = PyNone)

\* C25: a request classified faq whose FAQ lookup returns an answer runs the
\* FAQ block and no other handler, never calls the generation client, the
\* retriever or the order lookup, and its response and its result are each
\* set once, to the FAQ answer.
C25_FaqHitRunsNothingElse ==
    /\ [](\A r \in Requests : FaqHit(req[r]) => FaqHitOnly(req[r]))
    /\ [][\A r \in Requests : FaqHitStep(req[r], req'[r])]_vars

\* A finished request with an FAQ hit, with the model handle and the tools
\* present: the other handlers could have run and did not.
C25_Witness ==
    /\ gemini_model /\ protos
    /\ \E r \in Requests :
          /\ req[r].pc = "done"
          /\ FaqHit(req[r])
          /\ Len(req[r].log) = 3
          /\ req[r].result = OkResponse(FaqHitAnswer(req[r]))

==============================================================================
